---- MODULE Spec2Model ----
(***************************************************************************)
(* Model of producers/json_producer_badeniyan.py: configuration            *)
(* resolution, source selection, the two message generators and the        *)
(* delivery loop of main(), with the process exit status.                  *)
(*                                                                         *)
(* Control positions (pc) are the statements of main() and, while a        *)
(* generator frame is running, the statements of the generator.            *)
(* The environment is the CUSTOM_MESSAGE and BUZZ_INTERVAL_SECONDS         *)
(* variables (fixed for a run), the data file (which other processes may   *)
(* rewrite while the producer runs) and one SIGINT.                        *)
(***************************************************************************)
EXTENDS Integers, Sequences, FiniteSets, TLC

\* ---------------------------------------------------------------- bounds
MaxLen == 2        \* longest JSON array kept in the data file
MaxSends == 5      \* loop iterations explored in one run
MaxChanges == 1    \* rewrites of the data file by other processes
MaxRows == 2       \* longest CSV file given to the consumer

\* ------------------------------------------------------- Python values
\* A Python value: its type, n (len() of a container or str, the value of
\* an int) and, for a dict of one entry, that entry.
PyNone == [type |-> "NoneType", n |-> 0, key |-> "", val |-> ""]
PyInt(i) == [type |-> "int", n |-> i, key |-> "", val |-> ""]
EmptyDict == [type |-> "dict", n |-> 0, key |-> "", val |-> ""]
PyDict(k, v) == [type |-> "dict", n |-> 1, key |-> k, val |-> v]

\* bool(v): None, 0 and empty containers are false.
Truthy(v) == v.type # "NoneType" /\ v.n # 0

\* "not", the key that iterating the dict {"not": "a list"} yields.
ObjKey == [type |-> "str", n |-> 3, key |-> "", val |-> "not"]

RecA == PyDict("message", "a")
RecB == PyDict("message", "b")
Records == {RecA, RecB}

\* ------------------------------------------------------------ environment
\* os.getenv("CUSTOM_MESSAGE"): unset, or set to one of these texts.
CustomTexts == {"", "{}", "0", "{\"message\": \"a\"}", "hello", "5"}
CustomEnvs == {[set |-> FALSE, text |-> ""]}
                \cup {[set |-> TRUE, text |-> t] : t \in CustomTexts}

\* os.getenv("BUZZ_TOPIC", "unknown_topic")
TopicEnvs == {"unset", "buzz_topic"}

get_kafka_topic(env) == IF env = "unset" THEN "unknown_topic" ELSE env

\* os.getenv("BUZZ_INTERVAL_SECONDS", 1)
IntervalEnvs == {"unset", "0", "-1", "abc"}

\* json.loads on the texts above.
JsonLoads(s) ==
    CASE s = "{}" -> [ok |-> TRUE, val |-> EmptyDict]
      [] s = "0" -> [ok |-> TRUE, val |-> PyInt(0)]
      [] s = "5" -> [ok |-> TRUE, val |-> PyInt(5)]
      [] s = "{\"message\": \"a\"}" -> [ok |-> TRUE, val |-> RecA]
      [] OTHER -> [ok |-> FALSE, val |-> PyNone]

\* int(os.getenv("BUZZ_INTERVAL_SECONDS", 1))
IntParse(s) ==
    CASE s = "unset" -> [ok |-> TRUE, val |-> 1]
      [] s = "0" -> [ok |-> TRUE, val |-> 0]
      [] s = "-1" -> [ok |-> TRUE, val |-> -1]
      [] OTHER -> [ok |-> FALSE, val |-> 0]

get_custom_message(env) ==
    IF env.set /\ env.text # ""
    THEN IF JsonLoads(env.text).ok
         THEN JsonLoads(env.text).val
         ELSE PyDict("message", env.text)
    ELSE PyNone

\* ---------------------------------------------------------------- data file
\* A state of DATA_FILE: absent, present but not readable as text, text that
\* is no JSON, the JSON object {"not": "a list"}, or a JSON array of records.
\* items is what iterating the parsed value yields.
Arrays == UNION {[1..n -> Records] : n \in 0..MaxLen}
FileStates ==
    {[kind |-> k, items |-> <<>>] : k \in {"missing", "unreadable", "invalid"}}
    \cup {[kind |-> "object", items |-> <<ObjKey>>]}
    \cup {[kind |-> "array", items |-> a] : a \in Arrays}

\* Mutant of LoadRaises: the isinstance check of lines 119-122 left out.
LoadRaisesNoTypeCheck(f) ==
    CASE f.kind = "missing" -> "FileNotFoundError"
      [] f.kind = "unreadable" -> "OSError"
      [] f.kind = "invalid" -> "JSONDecodeError"
      [] OTHER -> "none"

\* What open() + json.load() + the isinstance check raise for a file state.
LoadRaises(f) ==
    CASE f.kind = "missing" -> "FileNotFoundError"
      [] f.kind = "unreadable" -> "OSError"
      [] f.kind = "invalid" -> "JSONDecodeError"
      [] f.kind = "object" -> "ValueError"
      [] OTHER -> "none"

\* Mutant of HandlerExit: the JSONDecodeError clause placed after the
\* Exception clause, which then takes the decode errors.
HandlerExitDecodeLate(e) ==
    CASE e = "FileNotFoundError" -> 1
      [] OTHER -> 3

\* Mutant of HandlerExit: the Exception clause exits with 1.
HandlerExitGenericOne(e) ==
    CASE e = "FileNotFoundError" -> 1
      [] e = "JSONDecodeError" -> 2
      [] OTHER -> 1

\* The except clauses of generate_messages: exception class -> sys.exit code.
HandlerExit(e) ==
    CASE e = "FileNotFoundError" -> 1
      [] e = "JSONDecodeError" -> 2
      [] OTHER -> 3

NoExc == [type |-> "none", origin |-> "", code |-> 0]

VARIABLES
    customEnv,      \* CUSTOM_MESSAGE
    intervalEnv,    \* BUZZ_INTERVAL_SECONDS
    topicEnv,       \* BUZZ_TOPIC
    file,           \* state of DATA_FILE on disk
    changes,        \* rewrites of DATA_FILE so far
    sigint,         \* SIGINT already delivered
    pc,             \* control position
    topic,          \* main: topic
    interval_secs,  \* main: interval_secs
    custom_msg,     \* main: custom_msg
    gen,            \* main: message_generator ("none", "file", "custom")
    started,        \* generator frame has run up to its first yield
    json_data,      \* generate_messages: json_data
    idx,            \* generate_messages: position of the for iterator
    message_dict,   \* main: message_dict
    producer,       \* "none", "open", "closed"
    closeCount,     \* calls of producer.close()
    sendAttempts,   \* calls of producer.send()
    sent,           \* values producer.send() accepted, in order
    lateSend,       \* producer.send() was called on a closed producer
    seen,           \* file state met by the last open() in generate_messages
    exc,            \* last exception raised into main's try block
    log,            \* last error/warning logged
    exitCode,       \* process exit status (meaningful once pc = "exited")
    boot,           \* bootstrap calls that returned normally, in order
    pulls,          \* values the for statement received from the generator
    sleepCalls,     \* calls of time.sleep()
    slept,          \* seconds spent in time.sleep()
    lastTopic,      \* topic argument of the last producer.send()
    csv_pc,         \* consumer script: control position
    csv_rows,       \* consumer script: temperature column of the CSV file
    csv_pos,        \* consumer script: rows read by consume_csv
    stall_log       \* consumer script: per row, "stall range" was logged

\* The producer process and what it reads.
producerVars ==
    <<customEnv, intervalEnv, topicEnv, file, changes, sigint, pc, topic,
      topic, interval_secs, custom_msg, gen, started, json_data, idx,
      message_dict, producer, closeCount, sendAttempts, sent, lateSend, seen,
      exc, log, exitCode, boot, pulls, sleepCalls, slept, lastTopic>>

\* The consumer script, a process of its own.
consumerVars == <<csv_pc, csv_rows, csv_pos, stall_log>>

vars == <<producerVars, consumerVars>>

\* What no step of the producer changes: its environment variables and the
\* consumer script.
envVars == <<customEnv, intervalEnv, topicEnv, consumerVars>>
traceVars == <<boot, pulls, sleepCalls, slept, lastTopic>>
genVars == <<gen, started, json_data, idx, seen>>
prodVars == <<producer, closeCount, sendAttempts, sent, lateSend>>

\* The producer process before the first statement of main().
ProducerStart ==
    /\ changes = 0
    /\ sigint = FALSE
    /\ pc = "verify"
    /\ topic = ""
    /\ interval_secs = 0
    /\ custom_msg = PyNone
    /\ gen = "none"
    /\ started = FALSE
    /\ json_data = <<>>
    /\ idx = 0
    /\ message_dict = PyNone
    /\ producer = "none"
    /\ closeCount = 0
    /\ sendAttempts = 0
    /\ sent = <<>>
    /\ lateSend = FALSE
    /\ seen = [kind |-> "none", items |-> <<>>]
    /\ exc = NoExc
    /\ log = ""
    /\ exitCode = 0
    /\ boot = <<>>
    /\ pulls = 0
    /\ sleepCalls = 0
    /\ slept = 0
    /\ lastTopic = ""

\* A run of the producer: any environment, any state of the data file; the
\* consumer script is not running.
Init ==
    /\ customEnv \in CustomEnvs
    /\ intervalEnv \in IntervalEnvs
    /\ topicEnv \in TopicEnvs
    /\ file \in FileStates
    /\ ProducerStart
    /\ csv_pc = "idle"
    /\ csv_rows = <<>>
    /\ csv_pos = 0
    /\ stall_log = <<>>

\* -------------------------------------------------------------- bootstrap
\* main, line 167: verify_services() of utils.utils_producer; an unreachable
\* broker ends the process there with some error status.
VerifyServices ==
    /\ pc = "verify"
    /\ \/ /\ pc' = "config"
          /\ boot' = Append(boot, "verify_services")
          /\ UNCHANGED <<log, exitCode>>
       \/ /\ pc' = "exited"
          /\ log' = "Kafka broker not ready"
          /\ exitCode' \in {1, 2}
          /\ UNCHANGED boot
    /\ UNCHANGED <<envVars, pulls, sleepCalls, slept, lastTopic, file,
                   changes, sigint, topic, interval_secs, custom_msg,
                   genVars, message_dict, prodVars, exc>>

\* main, lines 170-174: get_kafka_topic(), get_message_interval() (an
\* uncaught ValueError of int() ends the process with the interpreter's
\* status 1) and get_custom_message().
ResolveConfig ==
    /\ pc = "config"
    /\ topic' = get_kafka_topic(topicEnv)
    /\ IF IntParse(intervalEnv).ok
       THEN /\ interval_secs' = IntParse(intervalEnv).val
            /\ custom_msg' = get_custom_message(customEnv)
            /\ pc' = "select"
            /\ UNCHANGED <<log, exitCode>>
       ELSE /\ pc' = "exited"
            /\ log' = "Traceback: ValueError"
            /\ exitCode' = 1
            /\ UNCHANGED <<interval_secs, custom_msg>>
    /\ UNCHANGED <<envVars, traceVars, file, changes, sigint, genVars,
                   message_dict, prodVars, exc>>

\* main, lines 175-183: choose the generator; without a (truthy) custom
\* message the data file must exist.
SelectSource ==
    /\ pc = "select"
    /\ IF Truthy(custom_msg)
       THEN /\ gen' = "custom"
            /\ pc' = "create_producer"
            /\ UNCHANGED <<log, exitCode>>
       ELSE IF file.kind = "missing"
            THEN /\ pc' = "exited"
                 /\ log' = "Data file not found"
                 /\ exitCode' = 1
                 /\ UNCHANGED gen
            ELSE /\ gen' = "file"
                 /\ pc' = "create_producer"
                 /\ UNCHANGED <<log, exitCode>>
    /\ UNCHANGED <<envVars, traceVars, file, changes, sigint, topic,
                   interval_secs, custom_msg, started, json_data, idx, seen,
                   message_dict, prodVars, exc>>

\* main, lines 186-191: create_kafka_producer() returns a client or None.
CreateProducer ==
    /\ pc = "create_producer"
    /\ \/ /\ producer' = "open"
          /\ pc' = "create_topic"
          /\ boot' = Append(boot, "create_kafka_producer")
          /\ UNCHANGED <<log, exitCode>>
       \/ /\ pc' = "exited"
          /\ log' = "Failed to create Kafka producer"
          /\ exitCode' = 3
          /\ UNCHANGED <<producer, boot>>
    /\ UNCHANGED <<envVars, pulls, sleepCalls, slept, lastTopic, file,
                   changes, sigint, topic, interval_secs, custom_msg,
                   genVars, message_dict, closeCount, sendAttempts, sent,
                   lateSend, exc>>

\* Mutant of CreateTopic: the failure exits with 3.
CreateTopicExitThree ==
    /\ pc = "create_topic"
    /\ \/ /\ pc' = "for"
          /\ boot' = Append(boot, "create_kafka_topic")
          /\ UNCHANGED <<log, exitCode>>
       \/ /\ pc' = "exited"
          /\ log' = "Failed to create or verify topic"
          /\ exitCode' = 3
          /\ UNCHANGED boot
    /\ UNCHANGED <<envVars, pulls, sleepCalls, slept, lastTopic, file,
                   changes, sigint, topic, interval_secs, custom_msg,
                   genVars, message_dict, prodVars, exc>>

\* Mutant of CreateTopic: the failure is logged and main goes on.
CreateTopicIgnoresFailure ==
    /\ pc = "create_topic"
    /\ \/ /\ pc' = "for"
          /\ boot' = Append(boot, "create_kafka_topic")
          /\ UNCHANGED <<log, exitCode>>
       \/ /\ pc' = "for"
          /\ log' = "Failed to create or verify topic"
          /\ UNCHANGED exitCode
          /\ UNCHANGED boot
    /\ UNCHANGED <<envVars, pulls, sleepCalls, slept, lastTopic, file,
                   changes, sigint, topic, interval_secs, custom_msg,
                   genVars, message_dict, prodVars, exc>>

\* Mutant of CreateTopic: the failure closes the producer before the exit.
CreateTopicCloses ==
    /\ pc = "create_topic"
    /\ \/ /\ pc' = "for"
          /\ boot' = Append(boot, "create_kafka_topic")
          /\ UNCHANGED <<log, exitCode, producer, closeCount>>
       \/ /\ pc' = "exited"
          /\ log' = "Failed to create or verify topic"
          /\ exitCode' = 1
          /\ producer' = "closed"
          /\ closeCount' = closeCount + 1
          /\ UNCHANGED boot
    /\ UNCHANGED <<envVars, pulls, sleepCalls, slept, lastTopic, file,
                   changes, sigint, topic, interval_secs, custom_msg,
                   genVars, message_dict, sendAttempts, sent, lateSend, exc>>

\* main, lines 194-199: create_kafka_topic(topic) returns or raises.
CreateTopic ==
    /\ pc = "create_topic"
    /\ \/ /\ pc' = "for"
          /\ boot' = Append(boot, "create_kafka_topic")
          /\ UNCHANGED <<log, exitCode>>
       \/ /\ pc' = "exited"
          /\ log' = "Failed to create or verify topic"
          /\ exitCode' = 1
          /\ UNCHANGED boot
    /\ UNCHANGED <<envVars, pulls, sleepCalls, slept, lastTopic, file,
                   changes, sigint, topic, interval_secs, custom_msg,
                   genVars, message_dict, prodVars, exc>>

\* ---------------------------------------------------------- delivery loop
\* main, line 204: the for statement asks the generator for its next value;
\* control enters the generator frame where it was suspended.
ForNext ==
    /\ pc = "for"
    /\ sendAttempts < MaxSends
    /\ pc' = IF gen = "custom" THEN "gen_custom"
             ELSE IF started THEN "gen_iter" ELSE "gen_open"
    /\ UNCHANGED <<envVars, traceVars, file, changes, sigint, topic,
                   interval_secs, custom_msg, genVars, message_dict,
                   prodVars, exc, log, exitCode>>

\* Mutant of GenOpen: the file is read on the first pass only; later passes
\* walk the list already loaded.
GenOpenCached ==
    /\ pc = "gen_open"
    /\ started' = TRUE
    /\ IF started
       THEN /\ idx' = 0
            /\ pc' = "gen_iter"
            /\ UNCHANGED <<seen, json_data, exc, log>>
       ELSE IF LoadRaises(file) = "none"
       THEN /\ seen' = file
            /\ json_data' = file.items
            /\ idx' = 0
            /\ pc' = "gen_iter"
            /\ UNCHANGED <<exc, log>>
       ELSE /\ seen' = file
            /\ exc' = [type |-> "SystemExit", origin |-> "generate_messages",
                       code |-> HandlerExit(LoadRaises(file))]
            /\ log' = LoadRaises(file)
            /\ pc' = "except"
            /\ UNCHANGED <<json_data, idx>>
    /\ UNCHANGED <<envVars, traceVars, file, changes, sigint, topic,
                   interval_secs, custom_msg, gen, message_dict, prodVars,
                   exitCode>>

\* generate_messages, lines 110-123 and 128-136: open and parse the file,
\* check that it holds a list; each failure is turned into sys.exit(code),
\* a SystemExit raised into main's try block.
GenOpen ==
    /\ pc = "gen_open"
    /\ seen' = file
    /\ started' = TRUE
    /\ IF LoadRaises(file) = "none"
       THEN /\ json_data' = file.items
            /\ idx' = 0
            /\ pc' = "gen_iter"
            /\ UNCHANGED <<exc, log>>
       ELSE /\ exc' = [type |-> "SystemExit", origin |-> "generate_messages",
                       code |-> HandlerExit(LoadRaises(file))]
            /\ log' = LoadRaises(file)
            /\ pc' = "except"
            /\ UNCHANGED <<json_data, idx>>
    /\ UNCHANGED <<envVars, traceVars, file, changes, sigint, topic,
                   interval_secs, custom_msg, gen, message_dict, prodVars,
                   exitCode>>

\* Mutant of GenIter: the list is walked from its end.
GenIterReversed ==
    /\ pc = "gen_iter"
    /\ IF idx < Len(json_data)
       THEN /\ message_dict' = json_data[Len(json_data) - idx]
            /\ idx' = idx + 1
            /\ pulls' = pulls + 1
            /\ pc' = "send"
       ELSE /\ pc' = "gen_open"
            /\ UNCHANGED <<message_dict, idx, pulls>>
    /\ UNCHANGED <<envVars, boot, sleepCalls, slept, lastTopic, file,
                   changes, sigint, topic, interval_secs, custom_msg, gen,
                   started, json_data, seen, prodVars, exc, log, exitCode>>

\* generate_messages, lines 125-127: the for loop over json_data yields the
\* next entry, or, the list exhausted, falls back to the while True.
GenIter ==
    /\ pc = "gen_iter"
    /\ IF idx < Len(json_data)
       THEN /\ message_dict' = json_data[idx + 1]
            /\ idx' = idx + 1
            /\ pulls' = pulls + 1
            /\ pc' = "send"
       ELSE /\ pc' = "gen_open"
            /\ UNCHANGED <<message_dict, idx, pulls>>
    /\ UNCHANGED <<envVars, boot, sleepCalls, slept, lastTopic, file,
                   changes, sigint, topic, interval_secs, custom_msg, gen,
                   started, json_data, seen, prodVars, exc, log, exitCode>>

\* Mutant of GenCustom: the message is handed out once, later values are None.
GenCustomOnce ==
    /\ pc = "gen_custom"
    /\ message_dict' = IF started THEN PyNone ELSE custom_msg
    /\ started' = TRUE
    /\ pulls' = pulls + 1
    /\ pc' = "send"
    /\ UNCHANGED <<envVars, boot, sleepCalls, slept, lastTopic, file,
                   changes, sigint, topic, interval_secs, custom_msg, gen,
                   json_data, idx, seen, prodVars, exc, log, exitCode>>

\* generate_custom_message, lines 150-152.
GenCustom ==
    /\ pc = "gen_custom"
    /\ message_dict' = custom_msg
    /\ started' = TRUE
    /\ pulls' = pulls + 1
    /\ pc' = "send"
    /\ UNCHANGED <<envVars, boot, sleepCalls, slept, lastTopic, file,
                   changes, sigint, topic, interval_secs, custom_msg, gen,
                   json_data, idx, seen, prodVars, exc, log, exitCode>>

\* Mutant of Send: an accepted send goes straight to the next record.
SendNoPause ==
    /\ pc = "send"
    /\ sendAttempts' = sendAttempts + 1
    /\ lastTopic' = topic
    /\ lateSend' = (lateSend \/ producer = "closed")
    /\ \/ /\ sent' = Append(sent, message_dict)
          /\ pc' = "for"
          /\ UNCHANGED exc
       \/ /\ exc' = [type |-> "Exception", origin |-> "send", code |-> 0]
          /\ pc' = "except"
          /\ UNCHANGED sent
    /\ UNCHANGED <<envVars, boot, pulls, sleepCalls, slept, file, changes,
                   sigint, topic, interval_secs, custom_msg, genVars,
                   message_dict, producer, closeCount, log, exitCode>>

\* main, lines 206-207: producer.send(topic, value=message_dict) returns or
\* raises.
Send ==
    /\ pc = "send"
    /\ sendAttempts' = sendAttempts + 1
    /\ lastTopic' = topic
    /\ lateSend' = (lateSend \/ producer = "closed")
    /\ \/ /\ sent' = Append(sent, message_dict)
          /\ pc' = "sleep"
          /\ UNCHANGED exc
       \/ /\ exc' = [type |-> "Exception", origin |-> "send", code |-> 0]
          /\ pc' = "except"
          /\ UNCHANGED sent
    /\ UNCHANGED <<envVars, boot, pulls, sleepCalls, slept, file, changes,
                   sigint, topic, interval_secs, custom_msg, genVars,
                   message_dict, producer, closeCount, log, exitCode>>

\* Mutant of Sleep: a negative interval is taken as no pause.
SleepClamped ==
    /\ pc = "sleep"
    /\ sleepCalls' = sleepCalls + 1
    /\ slept' = IF interval_secs < 0 THEN slept ELSE slept + interval_secs
    /\ pc' = "for"
    /\ UNCHANGED exc
    /\ UNCHANGED <<envVars, boot, pulls, lastTopic, file, changes, sigint,
                   topic, interval_secs, custom_msg, genVars, message_dict,
                   prodVars, log, exitCode>>

\* main, line 208: time.sleep(interval_secs); a negative length raises
\* ValueError.
Sleep ==
    /\ pc = "sleep"
    /\ sleepCalls' = sleepCalls + 1
    /\ IF interval_secs < 0
       THEN /\ exc' = [type |-> "Exception", origin |-> "sleep", code |-> 0]
            /\ pc' = "except"
            /\ UNCHANGED slept
       ELSE /\ slept' = slept + interval_secs
            /\ pc' = "for"
            /\ UNCHANGED exc
    /\ UNCHANGED <<envVars, boot, pulls, lastTopic, file, changes, sigint,
                   topic, interval_secs, custom_msg, genVars, message_dict,
                   prodVars, log, exitCode>>

\* Mutant of Except: a failed send is logged and the loop goes on with the
\* next record.
ExceptSkipRecord ==
    /\ pc = "except"
    /\ log' = CASE exc.type = "KeyboardInterrupt" -> "Producer interrupted by user"
                [] exc.type = "Exception" -> "Error during message production"
                [] OTHER -> log
    /\ pc' = IF exc.type = "Exception" THEN "for" ELSE "finally"
    /\ UNCHANGED <<envVars, traceVars, file, changes, sigint, topic,
                   interval_secs, custom_msg, genVars, message_dict,
                   prodVars, exc, exitCode>>

\* Mutant of Except: KeyboardInterrupt is logged and the loop goes on.
ExceptIgnoreInterrupt ==
    /\ pc = "except"
    /\ log' = CASE exc.type = "KeyboardInterrupt" -> "Producer interrupted by user"
                [] exc.type = "Exception" -> "Error during message production"
                [] OTHER -> log
    /\ pc' = IF exc.type = "KeyboardInterrupt" THEN "for" ELSE "finally"
    /\ UNCHANGED <<envVars, traceVars, file, changes, sigint, topic,
                   interval_secs, custom_msg, genVars, message_dict,
                   prodVars, exc, exitCode>>

\* main, lines 209-212: the except clauses of the loop. SystemExit is no
\* Exception: it matches neither clause and stays pending.
Except ==
    /\ pc = "except"
    /\ log' = CASE exc.type = "KeyboardInterrupt" -> "Producer interrupted by user"
                [] exc.type = "Exception" -> "Error during message production"
                [] OTHER -> log
    /\ pc' = "finally"
    /\ UNCHANGED <<envVars, traceVars, file, changes, sigint, topic,
                   interval_secs, custom_msg, genVars, message_dict,
                   prodVars, exc, exitCode>>

\* Mutant of Finally: producer.close() is not called.
FinallyNoClose ==
    /\ pc = "finally"
    /\ exitCode' = IF exc.type = "SystemExit" THEN exc.code ELSE 0
    /\ pc' = "exited"
    /\ UNCHANGED <<envVars, traceVars, file, changes, sigint, topic,
                   interval_secs, custom_msg, genVars, message_dict,
                   prodVars, exc, log>>

\* Mutant of Finally: a return in the finally clause drops the pending
\* SystemExit.
FinallyReturns ==
    /\ pc = "finally"
    /\ producer' = "closed"
    /\ closeCount' = closeCount + 1
    /\ exitCode' = 0
    /\ pc' = "exited"
    /\ UNCHANGED <<envVars, traceVars, file, changes, sigint, topic,
                   interval_secs, custom_msg, genVars, message_dict,
                   sendAttempts, sent, lateSend, exc, log>>

\* main, lines 213-217: the finally clause closes the producer; a pending
\* SystemExit then ends the process with its code, otherwise main returns.
Finally ==
    /\ pc = "finally"
    /\ producer' = "closed"
    /\ closeCount' = closeCount + 1
    /\ exitCode' = IF exc.type = "SystemExit" THEN exc.code ELSE 0
    /\ pc' = "exited"
    /\ UNCHANGED <<envVars, traceVars, file, changes, sigint, topic,
                   interval_secs, custom_msg, genVars, message_dict,
                   sendAttempts, sent, lateSend, exc, log>>

\* ------------------------------------------------------------ environment
\* SIGINT while control is inside the try block of main (lines 203-208,
\* the generator frames included): KeyboardInterrupt is raised there.
InTry == pc \in {"for", "gen_open", "gen_iter", "gen_custom", "send", "sleep"}

Interrupt ==
    /\ InTry
    /\ ~sigint
    /\ sigint' = TRUE
    /\ exc' = [type |-> "KeyboardInterrupt", origin |-> pc, code |-> 0]
    /\ pc' = "except"
    /\ UNCHANGED <<envVars, traceVars, file, changes, topic, interval_secs,
                   custom_msg, genVars, message_dict, prodVars, log,
                   exitCode>>

\* Another process rewrites, removes or restores the data file.
FileChange ==
    /\ pc # "exited"
    /\ changes < MaxChanges
    /\ \E f \in FileStates \ {file} : file' = f
    /\ changes' = changes + 1
    /\ UNCHANGED <<envVars, traceVars, sigint, pc, topic, interval_secs,
                   custom_msg, genVars, message_dict, prodVars, exc, log,
                   exitCode>>

Step ==
    \/ VerifyServices
    \/ ResolveConfig
    \/ SelectSource
    \/ CreateProducer
    \/ CreateTopic
    \/ ForNext
    \/ GenOpen
    \/ GenIter
    \/ GenCustom
    \/ Send
    \/ Sleep
    \/ Except
    \/ Finally

Next == Step \/ Interrupt \/ FileChange

Spec == Init /\ [][Next]_vars

\* The interpreter keeps running the program: a program step that can be
\* taken is taken.
FairSpec == Spec /\ WF_vars(Step)

\* ----------------------------------------------------- consumer script
\* Temperatures around the ends of the stall range.
Temps == {149, 150, 151, 169, 170, 171, 189, 190, 191}
CsvFiles == UNION {[1..n -> Temps] : n \in 0..MaxRows}

\* is_food_stall(temp)
is_food_stall(temp) == 150 <= temp /\ temp <= 190

\* A run of the consumer script on a CSV file; the producer is not running.
ConsumerInit ==
    /\ customEnv = [set |-> FALSE, text |-> ""]
    /\ intervalEnv = "unset"
    /\ topicEnv = "unset"
    /\ file = [kind |-> "missing", items |-> <<>>]
    /\ ProducerStart
    /\ csv_pc = "start"
    /\ csv_rows \in CsvFiles
    /\ csv_pos = 0
    /\ stall_log = <<>>

\* __main__, lines 33-36, and consume_csv, lines 16-17: open the file.
ConsumerStart ==
    /\ csv_pc = "start"
    /\ csv_pc' = "rows"
    /\ UNCHANGED <<producerVars, csv_rows, csv_pos, stall_log>>

\* consume_csv, lines 20-28: one row is read and classified, or the rows
\* are exhausted and the script logs its end (line 37).
ConsumeRow ==
    /\ csv_pc = "rows"
    /\ IF csv_pos < Len(csv_rows)
       THEN /\ csv_pos' = csv_pos + 1
            /\ stall_log' = Append(stall_log, is_food_stall(csv_rows[csv_pos + 1]))
            /\ UNCHANGED csv_pc
       ELSE /\ csv_pc' = "finished"
            /\ UNCHANGED <<csv_pos, stall_log>>
    /\ UNCHANGED <<producerVars, csv_rows>>

ConsumerNext == ConsumerStart \/ ConsumeRow

ConsumerSpec == ConsumerInit /\ [][ConsumerNext]_vars

\* ==================================================================
\* Properties
\* ==================================================================
FromGenerator == exc.type = "SystemExit" /\ exc.origin = "generate_messages"
SendFailed == exc.type = "Exception" /\ exc.origin = "send"
Interrupted == exc.type = "KeyboardInterrupt"
SleepFailed == exc.type = "Exception" /\ exc.origin = "sleep"

\* C1: on a non-fatal exit of the delivery loop (KeyboardInterrupt, or an
\* exception of producer.send) producer.close() has been called exactly once
\* when the process ends, the exit status is 0, and producer.send() is never
\* called on the closed producer (once it is closed the process has ended).
C1_NonFatalExitCloses ==
    /\ ~lateSend
    /\ closeCount <= 1
    /\ producer = "closed" => pc = "exited"
    /\ (pc = "exited" /\ (Interrupted \/ SendFailed)) =>
           (closeCount = 1 /\ producer = "closed" /\ exitCode = 0)

C1_Witness ==
    /\ pc = "exited"
    /\ SendFailed
    /\ Len(sent) = 2
    /\ closeCount = 1

\* C2: with a data file holding a non-empty array A that is never rewritten,
\* the n-th value generate_messages produces (from 0) is A[n mod len(A)]:
\* the values sent so far and the value waiting to be sent follow the cycle.
Cycle(A, n) == A[(n % Len(A)) + 1]

C2_CyclesInOrder ==
    (changes = 0 /\ gen = "file" /\ file.kind = "array" /\ Len(file.items) > 0) =>
        /\ \A n \in 1..Len(sent) : sent[n] = Cycle(file.items, n - 1)
        /\ pc = "send" => message_dict = Cycle(file.items, Len(sent))

C2_Witness ==
    /\ changes = 0
    /\ file.items = <<RecA, RecB>>
    /\ sent = <<RecA, RecB, RecA, RecB, RecA>>

\* C3: when the open or parse of the data file fails in generate_messages, on
\* the first load or a later one, the process exits with 1 for a missing
\* file, 2 for text that is no JSON and 3 for any other error; the existence
\* check of main exits with 1 as well.
C3_LoadExitCodes ==
    /\ (pc = "exited" /\ FromGenerator) =>
           /\ seen.kind = "missing" => exitCode = 1
           /\ seen.kind = "invalid" => exitCode = 2
           /\ seen.kind = "unreadable" => exitCode = 3
    /\ (pc = "exited" /\ log = "Data file not found") => exitCode = 1

C3_Witness ==
    /\ pc = "exited"
    /\ FromGenerator
    /\ seen.kind = "invalid"
    /\ Len(sent) = 2
    /\ exitCode = 2

\* C4 (as claimed): a file holding valid JSON that is no array exits with the
\* code of malformed JSON, which no other failure of the load uses.
C4_SchemaSharesMalformedCode ==
    (pc = "exited" /\ FromGenerator) =>
        /\ seen.kind \in {"object", "invalid"} => exitCode = 2
        /\ seen.kind \in {"missing", "unreadable"} => exitCode # 2

\* C4 (amended): a file holding valid JSON that is no array exits with 3, the
\* code of the unexpected errors, which the malformed-JSON exit (2) and the
\* missing-file exit (1) do not use.
C4_SchemaSharesUnexpectedCode ==
    (pc = "exited" /\ FromGenerator) =>
        /\ seen.kind \in {"object", "unreadable"} => exitCode = 3
        /\ seen.kind \in {"missing", "invalid"} => exitCode # 3

C4_Witness ==
    /\ pc = "exited"
    /\ FromGenerator
    /\ seen.kind = "object"
    /\ exitCode = 3

\* C5: a data file holding a JSON object ends the process with a non-zero
\* status other than the missing-file status 1, and from the moment
\* generate_messages has read that file nothing more is sent.
C5_ObjectFileExits ==
    /\ []((pc = "exited" /\ FromGenerator /\ seen.kind = "object") =>
             exitCode \notin {0, 1})
    /\ [](seen.kind = "object" => pc \in {"except", "finally", "exited"})
    /\ [][seen'.kind = "object" =>
             (sendAttempts' = sendAttempts /\ sent' = sent)]_vars

C5_Witness ==
    /\ pc = "exited"
    /\ seen.kind = "object"
    /\ FromGenerator
    /\ Len(sent) = 1
    /\ exitCode # 0

\* C6 (as claimed): a failed producer creation and a failed topic creation
\* exit with a code that none of the missing-file, malformed-JSON and
\* unexpected-error exits uses.
C6_BootstrapCodeSeparate ==
    (pc = "exited" /\ log \in {"Failed to create Kafka producer",
                              "Failed to create or verify topic"}) =>
        exitCode \notin {0, HandlerExit("FileNotFoundError"),
                         HandlerExit("JSONDecodeError"), HandlerExit("OSError")}

\* C6 (amended): a failed producer creation exits with 3, the code of the
\* unexpected errors, and a failed topic creation exits with 1, the code of
\* the missing file; neither is 0 nor the malformed-JSON code 2.
C6_BootstrapCodesReused ==
    /\ (pc = "exited" /\ log = "Failed to create Kafka producer") =>
           (exitCode = 3 /\ producer = "none")
    /\ (pc = "exited" /\ log = "Failed to create or verify topic") =>
           (exitCode = 1 /\ producer = "open")

C6_Witness ==
    /\ pc = "exited"
    /\ log = "Failed to create or verify topic"
    /\ exitCode = 1

\* C7: when producer.send raises on iteration k, k sends have been attempted
\* (the k-1 before it accepted), and from then on no send is attempted, no
\* further record is pulled, close is called exactly once and the process
\* ends with status 0.
C7_SendFailureStopsLoop ==
    /\ [](SendFailed =>
             /\ sendAttempts = Len(sent) + 1
             /\ pc \in {"except", "finally", "exited"}
             /\ closeCount <= 1
             /\ pc = "exited" => (closeCount = 1 /\ exitCode = 0))
    /\ [][SendFailed =>
             /\ sendAttempts' = sendAttempts
             /\ sent' = sent
             /\ idx' = idx
             /\ message_dict' = message_dict]_vars

C7_Witness ==
    /\ pc = "exited"
    /\ SendFailed
    /\ sendAttempts = 3
    /\ Len(sent) = 2
    /\ closeCount = 1
    /\ exitCode = 0

\* C8: a KeyboardInterrupt raised between two sends (in the sleep, at the for
\* statement, inside the generator, or before the next send starts) leaves
\* the number of sends at what it was, and close is called exactly once.
C8_InterruptStopsLoop ==
    /\ [](Interrupted =>
             /\ pc \in {"except", "finally", "exited"}
             /\ closeCount <= 1
             /\ pc = "exited" => closeCount = 1)
    /\ [][Interrupted' =>
             (sendAttempts' = sendAttempts /\ sent' = sent)]_vars

C8_Witness ==
    /\ pc = "exited"
    /\ Interrupted
    /\ exc.origin = "gen_open"
    /\ Len(sent) = 2
    /\ sendAttempts = 2
    /\ closeCount = 1

\* C9 (as claimed): every request for the next record of the file source
\* leads to a record handed to the loop or to the end of the loop by an
\* exception, for every file holding a JSON array, [] included.
C9_NextEventuallyProduces ==
    (pc \in {"gen_open", "gen_iter"}) ~> (pc \in {"send", "except"})

\* C10 (as claimed): with CUSTOM_MESSAGE set, whatever its value, the file
\* source is never chosen, the data file is never checked or read, and the
\* process never exits for a missing data file.
C10_OverrideBypassesFile ==
    customEnv.set =>
        /\ gen # "file"
        /\ seen.kind = "none"
        /\ log # "Data file not found"

\* C11: with the literal source chosen for the record R = custom_msg, every
\* value generate_custom_message hands to the loop is R, so every value sent
\* is R; the generator never ends the loop by itself (the loop is left only
\* by an exception of send or sleep or by KeyboardInterrupt) and the data
\* file is never opened.
C11_LiteralRepeats ==
    gen = "custom" =>
        /\ \A n \in 1..Len(sent) : sent[n] = custom_msg
        /\ pc \in {"send", "sleep"} => message_dict = custom_msg
        /\ pc \notin {"gen_open", "gen_iter"}
        /\ seen.kind = "none"
        /\ (pc \in {"except", "finally"} \/ closeCount > 0) =>
               exc.type \in {"Exception", "KeyboardInterrupt"}

C11_Witness ==
    /\ gen = "custom"
    /\ customEnv.text = "hello"
    /\ sent = <<custom_msg, custom_msg, custom_msg>>
    /\ pc = "send"
    /\ file.kind = "missing"

\* C12 (as claimed): the record resolved from CUSTOM_MESSAGE is always a
\* mapping, so no value of another type is sent in a literal-source run.
C12_LiteralIsMapping ==
    gen = "custom" =>
        /\ custom_msg.type = "dict"
        /\ \A n \in 1..Len(sent) : sent[n].type = "dict"

\* C13: when a bootstrap step fails (broker unreachable, no producer client,
\* topic creation raises) the process ends with a non-zero status and no
\* record has been pulled or sent; and whenever a send has been attempted,
\* verify_services, create_kafka_producer and create_kafka_topic have
\* returned normally before it, in that order.
BootFailures == {"Kafka broker not ready", "Failed to create Kafka producer",
                 "Failed to create or verify topic"}

C13_BootstrapBeforeSend ==
    /\ (pc = "exited" /\ log \in BootFailures) =>
           (exitCode # 0 /\ sendAttempts = 0 /\ pulls = 0)
    /\ (sendAttempts > 0 \/ pulls > 0) =>
           boot = <<"verify_services", "create_kafka_producer",
                    "create_kafka_topic">>

C13_Witness ==
    /\ pc = "exited"
    /\ log = "Failed to create or verify topic"
    /\ boot = <<"verify_services", "create_kafka_producer">>
    /\ exitCode # 0
    /\ sendAttempts = 0

\* C14 (as claimed): is_food_stall is true exactly for the temperatures from
\* 150 to 170: each row consume_csv has classified is logged as a stall
\* exactly when its temperature lies in that range.
C14_StallRange ==
    \A i \in 1..Len(stall_log) :
        stall_log[i] = (150 <= csv_rows[i] /\ csv_rows[i] <= 170)

\* C15: when generate_messages fails to load the file (at a cycle boundary as
\* on the first load) the process ends with the non-zero code of that failure,
\* unchanged by main's handlers, nothing is sent from the failure on, and
\* the producer is closed exactly once before the process ends.
C15_RereadFailureExits ==
    /\ [](FromGenerator =>
             /\ pc \in {"except", "finally", "exited"}
             /\ closeCount <= 1
             /\ exc.code \in {1, 2, 3}
             /\ pc = "exited" =>
                    (exitCode = exc.code /\ closeCount = 1 /\ producer = "closed"))
    /\ [][FromGenerator' =>
             (sendAttempts' = sendAttempts /\ sent' = sent)]_vars

C15_Witness ==
    /\ pc = "exited"
    /\ FromGenerator
    /\ seen.kind = "missing"
    /\ sent = <<RecA, RecB>>
    /\ json_data = <<RecA, RecB>>
    /\ closeCount = 1
    /\ exitCode = 1

\* C16: the list generate_messages walks is the content the file had at the
\* last open; it is replaced only by an open, an open happens only when the
\* list is exhausted and loads the file as it is then, and every value
\* yielded is the next entry of the list loaded at the start of the pass,
\* whatever has been written to the file since.
C16_RereadPerPass ==
    /\ []((gen = "file" /\ seen.kind = "array") => json_data = seen.items)
    /\ [][(pc = "gen_open" /\ pc' = "gen_iter") =>
             (seen' = file /\ json_data' = file.items /\ idx' = 0)]_vars
    /\ [][(pc = "gen_iter" /\ pc' = "gen_open") => idx = Len(json_data)]_vars
    /\ [][(pc = "gen_iter" /\ pc' = "send") =>
             (message_dict' = seen.items[idx + 1] /\ idx' = idx + 1)]_vars
    /\ [][pc # "gen_open" => (seen' = seen /\ json_data' = json_data)]_vars

C16_Witness ==
    /\ changes = 1
    /\ pc = "sleep"
    /\ file.items = <<RecB, RecB>>
    /\ seen = file
    /\ sent = <<RecA, RecA, RecB>>

\* C17: the loop pulls, sends and sleeps once per iteration and in that
\* order: whenever the next record is being pulled every earlier pull has
\* been followed by its send and its sleep; every send goes to the topic
\* resolved at startup; the time slept is the resolved interval for each
\* completed sleep, which is no time at all for the interval 0.
CompletedSleeps == IF SleepFailed THEN sleepCalls - 1 ELSE sleepCalls

C17_PullSendSleepOrder ==
    /\ pc \in {"for", "gen_open", "gen_iter", "gen_custom"} =>
           (pulls = sendAttempts /\ sleepCalls = sendAttempts
            /\ Len(sent) = sendAttempts)
    /\ pc = "send" =>
           (pulls = sendAttempts + 1 /\ sleepCalls = sendAttempts
            /\ Len(sent) = sendAttempts)
    /\ pc = "sleep" =>
           (pulls = sendAttempts /\ sleepCalls = sendAttempts - 1
            /\ Len(sent) = sendAttempts)
    /\ sendAttempts > 0 =>
           (lastTopic = topic /\ topic = get_kafka_topic(topicEnv)
            /\ interval_secs = IntParse(intervalEnv).val)
    /\ slept = interval_secs * CompletedSleeps
    /\ interval_secs = 0 => slept = 0

C17_Witness ==
    /\ pc = "for"
    /\ intervalEnv = "0"
    /\ topicEnv = "buzz_topic"
    /\ lastTopic = "buzz_topic"
    /\ pulls = 3
    /\ sendAttempts = 3
    /\ sleepCalls = 3
    /\ slept = 0

\* C18: with a negative interval the first time.sleep raises: no second
\* record is pulled or sent, and once the sleep has raised exactly one record
\* has been sent, the loop is left, close is called exactly once and the
\* process ends with status 0.
C18_NegativeIntervalStops ==
    interval_secs < 0 =>
        /\ sendAttempts <= 1
        /\ pulls <= 1
        /\ pc \in {"for", "gen_open", "gen_iter", "gen_custom"} => sendAttempts = 0
        /\ SleepFailed =>
               /\ Len(sent) = 1
               /\ sleepCalls = 1
               /\ pc \in {"except", "finally", "exited"}
               /\ closeCount <= 1
               /\ pc = "exited" => (closeCount = 1 /\ exitCode = 0)

C18_Witness ==
    /\ interval_secs < 0
    /\ pc = "exited"
    /\ SleepFailed
    /\ Len(sent) = 1
    /\ closeCount = 1
    /\ exitCode = 0

\* C19: the producer is closed only by the finally clause of the delivery
\* loop. A failed topic creation ends the process with 1 and leaves the
\* created producer unclosed; a data file missing at startup, without a
\* usable override, ends the process with 1 before any producer is created.
C19_CloseOnlyThroughLoop ==
    /\ closeCount > 0 => (exc.type # "none" /\ pc = "exited")
    /\ (pc = "exited" /\ log = "Failed to create or verify topic") =>
           (exitCode = 1 /\ producer = "open" /\ closeCount = 0)
    /\ (pc = "exited" /\ log = "Data file not found") =>
           (exitCode = 1 /\ producer = "none" /\ closeCount = 0
            /\ boot = <<"verify_services">>)

C19_Witness ==
    /\ pc = "exited"
    /\ log = "Failed to create or verify topic"
    /\ producer = "open"
    /\ closeCount = 0
    /\ exitCode = 1

====
